---- MODULE Spec2Model ----
(***************************************************************************)
(* plot-power (src/src/main.rs): a directory of xz-compressed logs is      *)
(* parsed by -t worker threads that share one mutex-guarded Dispatcher,    *)
(* the records are sorted, averaged over windows of --avg seconds and      *)
(* plotted one figure per day.                                             *)
(*                                                                         *)
(* Number representation.  TLC's integers are 32 bits wide, the            *)
(* program's timestamp_ms is an i64 around 1.5e12.  An i64 millisecond     *)
(* value is therefore kept as [s, ms] with value s * 1000 + ms, |ms| < 1000*)
(* and ms carrying the sign of the value (Rust's truncating division).     *)
(* An f32 is [k, v]: k = "fin" with v in units of 1/10000, or k = "nan",   *)
(* "inf", "ninf" (v unused, 0).  Float rounding is not modelled: sums are  *)
(* exact, a quotient is floored to 1/10000.                                *)
(***************************************************************************)
EXTENDS Integers, Sequences, FiniteSets, TLC

(***************************************************************************)
(* Bounds of the model.                                                    *)
(***************************************************************************)
\* the largest -t value of a run
MaxThreads == 2
\* the averaging loop is followed for at most this many buckets (with
\* --avg <= 0 and more than 20 records it never ends)
MaxBuckets == 8

(***************************************************************************)
(* Program constants.                                                      *)
(***************************************************************************)
MinTimestampS == 1000000000
MaxTimestampS == 2000000000
MinCurrent == -150000
MaxCurrent == 150000
MinVoltage == 50000
MaxVoltage == 160000
TailGuard == 20
SecondsPerHour == 3600
ExitNoLogs == 2
ExitPanic == 101

(***************************************************************************)
(* f32 values and the comparisons and arithmetic main.rs applies to them.  *)
(***************************************************************************)
Fin(v) == [k |-> "fin", v |-> v]
NaN == [k |-> "nan", v |-> 0]
PosInf == [k |-> "inf", v |-> 0]
NegInf == [k |-> "ninf", v |-> 0]

FLt(a, b) ==
    CASE a.k = "nan" \/ b.k = "nan" -> FALSE
      [] a.k = "ninf" -> b.k # "ninf"
      [] a.k = "inf" -> FALSE
      [] b.k = "ninf" -> FALSE
      [] b.k = "inf" -> TRUE
      [] OTHER -> a.v < b.v

FGt(a, b) == FLt(b, a)

FAdd(a, b) ==
    CASE a.k = "nan" \/ b.k = "nan" -> NaN
      [] a.k = "inf" -> IF b.k = "ninf" THEN NaN ELSE PosInf
      [] a.k = "ninf" -> IF b.k = "inf" THEN NaN ELSE NegInf
      [] b.k # "fin" -> b
      [] OTHER -> Fin(a.v + b.v)

\* a / n for a count n >= 1 (the divisor of take_avg is never 0)
FDivCount(a, n) == IF a.k = "fin" THEN Fin(a.v \div n) ELSE a

\* a * b of two finite values, in units of 1/10000, without leaving 32 bits
FMulFin(a, b) == (a \div 10000) * b + ((a % 10000) * b) \div 10000

FMul(a, b) ==
    CASE a.k = "nan" \/ b.k = "nan" -> NaN
      [] a.k = "fin" /\ b.k = "fin" -> Fin(FMulFin(a.v, b.v))
      [] a.k = "fin" /\ a.v = 0 -> NaN
      [] b.k = "fin" /\ b.v = 0 -> NaN
      [] OTHER ->
           LET na == a.k = "ninf" \/ (a.k = "fin" /\ a.v < 0)
               nb == b.k = "ninf" \/ (b.k = "fin" /\ b.v < 0)
           IN IF na = nb THEN PosInf ELSE NegInf

(***************************************************************************)
(* i64 millisecond values.                                                 *)
(***************************************************************************)
Ms(s, ms) == [s |-> s, ms |-> ms]

\* i64::MAX and i64::MIN, what a saturating `as i64` gives for +-inf; only
\* the range test of Record::new is ever applied to them
I64Max == Ms(2147483647, 807)
I64Min == Ms(-2147483647, -808)

MsLt(a, b) == a.s < b.s \/ (a.s = b.s /\ a.ms < b.ms)
MsGt(a, b) == MsLt(b, a)
MsLe(a, b) == ~MsLt(b, a)

\* (a - b) >= d * 1000 for an integer number d of seconds: a - b is at least
\* d * 1000 iff its floor in whole seconds is at least d
MsDiffGeSeconds(a, b, d) ==
    (a.s - b.s) + (IF a.ms < b.ms THEN -1 ELSE 0) >= d

\* x / 1000 on an i64 (truncating)
MsToSeconds(a) == a.s

(***************************************************************************)
(* The text of a line.  A line is a sequence of tokens; a token is the     *)
(* separator ';', a decimal numeral (sign, integer part, four fractional   *)
(* digits), one of the words str::parse reads as a float ("NaN", "inf",    *)
(* "-inf"), or other text.                                                 *)
(***************************************************************************)
Tok(k, neg, int, frac) == [k |-> k, neg |-> neg, int |-> int, frac |-> frac]
Sep == Tok("sep", FALSE, 0, 0)
Junk == Tok("junk", FALSE, 0, 0)
NaNWord == Tok("nan", FALSE, 0, 0)
InfWord == Tok("inf", FALSE, 0, 0)
NegInfWord == Tok("inf", TRUE, 0, 0)
Dec(int, frac) == Tok("dec", FALSE, int, frac)
NegDec(int, frac) == Tok("dec", TRUE, int, frac)

\* line.split(";").collect(): the fields between the separators
RECURSIVE SplitFrom(_, _, _)
SplitFrom(line, i, cur) ==
    IF i > Len(line) THEN <<cur>>
    ELSE IF line[i].k = "sep" THEN <<cur>> \o SplitFrom(line, i + 1, <<>>)
    ELSE SplitFrom(line, i + 1, Append(cur, line[i]))

split(line) == SplitFrom(line, 1, <<>>)

\* str::parse::<f32>() / ::<f64>(): Ok for exactly one numeral or float word
ParseOk(field) == Len(field) = 1 /\ field[1].k \in {"dec", "nan", "inf"}

parse_f32(field) ==
    LET t == field[1] IN
    CASE t.k = "nan" -> NaN
      [] t.k = "inf" -> IF t.neg THEN NegInf ELSE PosInf
      [] OTHER -> Fin((IF t.neg THEN -1 ELSE 1) * (t.int * 10000 + t.frac))

\* values[0].parse::<f64>() followed by (x * 1000.0) as i64: truncation
\* towards zero, NaN to 0, out of range saturates
parse_timestamp_ms(field) ==
    LET t == field[1] IN
    CASE t.k = "nan" -> Ms(0, 0)
      [] t.k = "inf" -> IF t.neg THEN I64Min ELSE I64Max
      [] OTHER -> IF t.neg THEN Ms(-t.int, -(t.frac \div 10))
                  ELSE Ms(t.int, t.frac \div 10)

None == [some |-> FALSE]
Some(ts, c, v) ==
    [some |-> TRUE, rec |-> [timestamp_ms |-> ts, current |-> c, voltage |-> v]]

Record_new(line) ==
    LET values == split(line) IN
    IF Len(values) # 3 THEN None
    ELSE IF ~ParseOk(values[1]) THEN None
    ELSE IF ~ParseOk(values[2]) THEN None
    ELSE IF ~ParseOk(values[3]) THEN None
    ELSE
      LET timestamp_ms == parse_timestamp_ms(values[1])
          current == parse_f32(values[2])
          voltage == parse_f32(values[3])
      IN IF MsLt(timestamp_ms, Ms(MinTimestampS, 0))
              \/ MsGt(timestamp_ms, Ms(MaxTimestampS, 0)) THEN None
         ELSE IF FLt(current, Fin(MinCurrent))
              \/ FGt(current, Fin(MaxCurrent)) THEN None
         ELSE IF FLt(voltage, Fin(MinVoltage))
              \/ FGt(voltage, Fin(MaxVoltage)) THEN None
         ELSE Some(timestamp_ms, current, voltage)

(***************************************************************************)
(* Input data: the log directories the runs are started on.  A file name   *)
(* is the sequence of its dot-separated parts; a file is either a corrupt  *)
(* archive or the lines it decompresses to.                                *)
(***************************************************************************)
July14(sec) == 1499990400 + sec
August15(sec) == July14(32 * 86400 + sec)

Line3(ts, c, v) == <<ts, Sep, c, Sep, v>>

LinesA ==
    << Line3(Dec(July14(9600), 0), Dec(1, 5000), Dec(12, 0)),
       Line3(Dec(July14(9659), 9996), Dec(15, 0), Dec(5, 0)),
       Line3(Dec(July14(9660), 0), Dec(15, 1), Dec(12, 0)),
       Line3(Dec(July14(9660), 0), Dec(2, 0), Dec(4, 9990)),
       Line3(Dec(July14(9660), 0), NaNWord, Dec(12, 0)),
       Line3(Junk, Dec(1, 0), Dec(12, 0)),
       <<Dec(July14(9660), 0), Sep, Dec(1, 0)>>,
       <<Dec(July14(9660), 0), Sep, Dec(1, 0), Sep, Dec(12, 0), Sep, Dec(7, 0)>>,
       <<Dec(July14(9660), 0), Sep, Sep, Dec(12, 0)>>,
       <<>>,
       Line3(Dec(999999999, 9999), Dec(1, 0), Dec(12, 0)),
       Line3(Dec(2000000000, 10), Dec(1, 0), Dec(12, 0)),
       Line3(NaNWord, Dec(1, 0), Dec(12, 0)),
       Line3(InfWord, Dec(1, 0), Dec(12, 0)),
       Line3(NegDec(July14(9660), 0), Dec(1, 0), Dec(12, 0)),
       Line3(Dec(July14(9720), 0), NegDec(15, 0), Dec(16, 0)),
       Line3(Dec(July14(9720), 0), NegDec(15, 1), Dec(16, 0)),
       Line3(Dec(July14(9720), 0), Dec(1, 0), Dec(16, 1)),
       Line3(Dec(July14(9720), 0), NegInfWord, Dec(12, 0)),
       Line3(Dec(July14(9720), 0), Dec(1, 0), InfWord) >>

LinesB == [i \in 1..21 |->
             Line3(Dec(August15(60 + 100 * (i - 1)), 0), Dec(i \div 10, (i % 10) * 1000),
                   Dec(12, 0))]

LinesD ==
    << Line3(Dec(July14(86400 + 120), 0), Dec(3, 0), Dec(13, 0)),
       Line3(Dec(July14(86400 - 60), 0), Dec(1, 0), Dec(13, 0)),
       Line3(Dec(July14(86400 + 60), 0), Dec(2, 0), Dec(13, 0)) >>

LinesE == << <<Junk>>, Line3(Dec(1, 0), Dec(1, 0), Dec(12, 0)) >>

Corrupt == [ok |-> FALSE, lines |-> <<>>]
Archive(lines) == [ok |-> TRUE, lines |-> lines]

LogSuffix == ".log.xz"

\* what lzma::decompress(&fs::read(file)) gives for a file of the directory
FileContent(file) ==
    CASE file[1] = "a" -> Archive(LinesA)
      [] file[1] = "b" -> Archive(LinesB)
      [] file[1] = "c" -> Corrupt
      [] file[1] = "d" -> Archive(LinesD)
      [] file[1] = "e" -> Archive(LinesE)
      [] OTHER -> Corrupt

LogDirs ==
    { <<>>,
      << <<"readme", ".txt">>, <<"a", ".log.xz", ".bak">> >>,
      << <<"e", ".log.xz">> >>,
      << <<"b", ".log.xz">>, <<"readme", ".txt">> >>,
      << <<"a", ".log.xz">> >>,
      << <<"b", ".log.xz">>, <<"d", ".log.xz">> >>,
      << <<"a", ".log.xz">>, <<"c", ".log.xz">>, <<"b", ".log.xz">> >>,
      << <<"d", ".log.xz">>, <<"a", ".log.xz">>, <<"readme", ".txt">>,
         <<"b", ".log.xz">> >> }

ThreadArgs == -1..MaxThreads
AvgArgs == {-1, 0, 60, 300}
TimeZoneArgs == {0, 1}

(***************************************************************************)
(* State.                                                                  *)
(***************************************************************************)
Threads == 1..MaxThreads

VARIABLES
    arg_logdir, flag_t, flag_avg, flag_time_zone,  \* Args
    files, job_index, recs,                        \* Dispatcher
    lock,                                          \* holder of the Mutex
    main_pc, thread_vec, join_index,               \* main: position, threads spawned, joined
    w_pc, w_file, w_recs,                          \* each worker: position, `file`, `recs`
    next_index, avg_recs,                          \* averaging loop
    rec_index, plots,                              \* plot loop, figures shown
    exited, exit_status,                           \* the process
    jobs, submitted, avg_calls                     \* history: jobs returned to each worker,
                                                   \* file indexes appended, take_avg calls

vars == << arg_logdir, flag_t, flag_avg, flag_time_zone, files, job_index, recs,
           lock, main_pc, thread_vec, join_index, w_pc, w_file, w_recs,
           next_index, avg_recs, rec_index, plots, exited, exit_status,
           jobs, submitted, avg_calls >>

args == << arg_logdir, flag_t, flag_avg, flag_time_zone >>
dispatcher == << files, job_index, recs >>
workers == << w_pc, w_file, w_recs >>
averaging == << next_index, avg_recs, avg_calls >>
plotting == << rec_index, plots >>
process == << exited, exit_status >>

FreeLock == [kind |-> "free", id |-> 0]
MainGuard == [kind |-> "main", id |-> 0]
WorkerGuard(w) == [kind |-> "worker", id |-> w]

NoFile == <<>>

Init ==
    /\ arg_logdir \in LogDirs
    /\ flag_t \in ThreadArgs
    /\ flag_avg \in AvgArgs
    /\ flag_time_zone \in TimeZoneArgs
    /\ files = <<>>
    /\ job_index = 0
    /\ recs = <<>>
    /\ lock = FreeLock
    /\ main_pc = "set_log_dir"
    /\ thread_vec = 0
    /\ join_index = 0
    /\ w_pc = [w \in Threads |-> "unborn"]
    /\ w_file = [w \in Threads |-> NoFile]
    /\ w_recs = [w \in Threads |-> <<>>]
    /\ next_index = 0
    /\ avg_recs = <<>>
    /\ rec_index = 0
    /\ plots = <<>>
    /\ exited = FALSE
    /\ exit_status = 0
    /\ jobs = [w \in Threads |-> <<>>]
    /\ submitted = <<>>
    /\ avg_calls = <<>>

(***************************************************************************)
(* Dispatcher                                                              *)
(***************************************************************************)
ends_with(file, suffix) == Len(file) > 0 /\ file[Len(file)] = suffix

RECURSIVE set_log_dir(_, _)
set_log_dir(fs, logs) ==
    IF logs = <<>> THEN fs
    ELSE set_log_dir(IF ends_with(Head(logs), LogSuffix) THEN Append(fs, Head(logs)) ELSE fs,
                     Tail(logs))

\* LoadLogDir without the test of lines 207-210
LoadLogDirNoCheck ==
    /\ ~exited
    /\ main_pc = "set_log_dir"
    /\ lock = FreeLock
    /\ files' = set_log_dir(files, arg_logdir)
    /\ main_pc' = "spawn"
    /\ UNCHANGED << args, job_index, recs, lock, thread_vec, join_index, workers,
                    averaging, plotting, process, jobs, submitted >>

\* main, lines 204-211: list the directory, exit(2) when no log file is in it
LoadLogDir ==
    /\ ~exited
    /\ main_pc = "set_log_dir"
    /\ lock = FreeLock
    /\ files' = set_log_dir(files, arg_logdir)
    /\ IF Len(files') = 0
         THEN /\ main_pc' = "exit"
              /\ exited' = TRUE
              /\ exit_status' = ExitNoLogs
         ELSE /\ main_pc' = "spawn"
              /\ UNCHANGED process
    /\ UNCHANGED << args, job_index, recs, lock, thread_vec, join_index, workers,
                    averaging, plotting, jobs, submitted >>

\* lines 218-240: one iteration of the spawn loop
SpawnThread ==
    /\ ~exited
    /\ main_pc = "spawn"
    /\ thread_vec < flag_t
    /\ thread_vec' = thread_vec + 1
    /\ w_pc' = [w_pc EXCEPT ![thread_vec + 1] = "lock_job"]
    /\ UNCHANGED << args, dispatcher, lock, main_pc, join_index, w_file, w_recs,
                    averaging, plotting, process, jobs, submitted >>

SpawnDone ==
    /\ ~exited
    /\ main_pc = "spawn"
    /\ thread_vec >= flag_t
    /\ main_pc' = "join"
    /\ UNCHANGED << args, dispatcher, lock, thread_vec, join_index, workers,
                    averaging, plotting, process, jobs, submitted >>

\* WorkerLock that does not wait for the mutex to be free
WorkerLockNoWait(w) ==
    /\ ~exited
    /\ w_pc[w] \in {"lock_job", "lock_append"}
    /\ lock' = WorkerGuard(w)
    /\ w_pc' = [w_pc EXCEPT ![w] = IF w_pc[w] = "lock_job" THEN "get_next_job"
                                   ELSE "append_data"]
    /\ UNCHANGED << args, dispatcher, main_pc, thread_vec, join_index, w_file, w_recs,
                    averaging, plotting, process, jobs, submitted >>

\* disp_mut.lock().unwrap() of a worker, lines 224 and 234
WorkerLock(w) ==
    /\ ~exited
    /\ w_pc[w] \in {"lock_job", "lock_append"}
    /\ lock = FreeLock
    /\ lock' = WorkerGuard(w)
    /\ w_pc' = [w_pc EXCEPT ![w] = IF w_pc[w] = "lock_job" THEN "get_next_job"
                                   ELSE "append_data"]
    /\ UNCHANGED << args, dispatcher, main_pc, thread_vec, join_index, w_file, w_recs,
                    averaging, plotting, process, jobs, submitted >>

\* get_next_job without `self.job_index += 1`
get_next_job_no_advance(w) ==
    /\ ~exited
    /\ w_pc[w] = "get_next_job"
    /\ lock = WorkerGuard(w)
    /\ LET j_idx == job_index IN
       IF j_idx >= Len(files)
         THEN /\ w_pc' = [w_pc EXCEPT ![w] = "done"]
              /\ UNCHANGED << job_index, w_file, w_recs, jobs >>
         ELSE /\ job_index' = job_index
              /\ w_file' = [w_file EXCEPT ![w] = files[j_idx + 1]]
              /\ w_recs' = [w_recs EXCEPT ![w] = <<>>]
              /\ jobs' = [jobs EXCEPT ![w] = Append(@, j_idx)]
              /\ w_pc' = [w_pc EXCEPT ![w] = "parse_file"]
    /\ lock' = FreeLock
    /\ UNCHANGED << args, files, recs, main_pc, thread_vec, join_index,
                    averaging, plotting, process, submitted >>

\* Dispatcher::get_next_job under the guard, the guard dropped at the end of
\* the block (lines 222-229), `let mut recs = Vec::new()` on a job
\* get_next_job of a thread that outlives the end of the process
get_next_job_detached(w) ==
    /\ w_pc[w] = "get_next_job"
    /\ lock = WorkerGuard(w)
    /\ LET j_idx == job_index IN
       IF j_idx >= Len(files)
         THEN /\ w_pc' = [w_pc EXCEPT ![w] = "done"]
              /\ UNCHANGED << job_index, w_file, w_recs, jobs >>
         ELSE /\ job_index' = job_index + 1
              /\ w_file' = [w_file EXCEPT ![w] = files[j_idx + 1]]
              /\ w_recs' = [w_recs EXCEPT ![w] = <<>>]
              /\ jobs' = [jobs EXCEPT ![w] = Append(@, j_idx)]
              /\ w_pc' = [w_pc EXCEPT ![w] = "parse_file"]
    /\ lock' = FreeLock
    /\ UNCHANGED << args, files, recs, main_pc, thread_vec, join_index,
                    averaging, plotting, process, submitted >>

get_next_job(w) ==
    /\ ~exited
    /\ w_pc[w] = "get_next_job"
    /\ lock = WorkerGuard(w)
    /\ LET j_idx == job_index IN
       IF j_idx >= Len(files)
         THEN /\ w_pc' = [w_pc EXCEPT ![w] = "done"]
              /\ UNCHANGED << job_index, w_file, w_recs, jobs >>
         ELSE /\ job_index' = job_index + 1
              /\ w_file' = [w_file EXCEPT ![w] = files[j_idx + 1]]
              /\ w_recs' = [w_recs EXCEPT ![w] = <<>>]
              /\ jobs' = [jobs EXCEPT ![w] = Append(@, j_idx)]
              /\ w_pc' = [w_pc EXCEPT ![w] = "parse_file"]
    /\ lock' = FreeLock
    /\ UNCHANGED << args, files, recs, main_pc, thread_vec, join_index,
                    averaging, plotting, process, submitted >>

RECURSIVE ParseLines(_, _)
ParseLines(lines, out) ==
    IF lines = <<>> THEN out
    ELSE LET r == Record_new(Head(lines)) IN
         ParseLines(Tail(lines), IF r.some THEN Append(out, r.rec) ELSE out)

ArchiveNames == {"a", "b", "c", "d", "e"}

\* the Vec<Record> parse_file builds from each archive, lines 161-168
parsed == [n \in ArchiveNames |-> ParseLines(FileContent(<<n, LogSuffix>>).lines, <<>>)]

\* parse_file, lines 159-169: the thread panics on a corrupt archive
parse_file(w) ==
    /\ ~exited
    /\ w_pc[w] = "parse_file"
    /\ LET decompressed == FileContent(w_file[w]) IN
       IF ~decompressed.ok
         THEN /\ w_pc' = [w_pc EXCEPT ![w] = "panicked"]
              /\ UNCHANGED w_recs
         ELSE /\ w_recs' = [w_recs EXCEPT ![w] = parsed[w_file[w][1]]]
              /\ w_pc' = [w_pc EXCEPT ![w] = "lock_append"]
    /\ UNCHANGED << args, dispatcher, lock, main_pc, thread_vec, join_index, w_file,
                    averaging, plotting, process, jobs, submitted >>

\* append_data after which the thread returns instead of looping
append_data_once(w) ==
    /\ ~exited
    /\ w_pc[w] = "append_data"
    /\ lock = WorkerGuard(w)
    /\ recs' = recs \o w_recs[w]
    /\ submitted' = Append(submitted, jobs[w][Len(jobs[w])])
    /\ lock' = FreeLock
    /\ w_pc' = [w_pc EXCEPT ![w] = "done"]
    /\ UNCHANGED << args, files, job_index, main_pc, thread_vec, join_index, w_file,
                    w_recs, averaging, plotting, process, jobs >>

\* Dispatcher::append_data under the guard (lines 233-236), then the loop
append_data(w) ==
    /\ ~exited
    /\ w_pc[w] = "append_data"
    /\ lock = WorkerGuard(w)
    /\ recs' = recs \o w_recs[w]
    /\ submitted' = Append(submitted, jobs[w][Len(jobs[w])])
    /\ lock' = FreeLock
    /\ w_pc' = [w_pc EXCEPT ![w] = "lock_job"]
    /\ UNCHANGED << args, files, job_index, main_pc, thread_vec, join_index, w_file,
                    w_recs, averaging, plotting, process, jobs >>

\* JoinThread that does not wait for the thread to end
JoinThreadNoWait ==
    /\ ~exited
    /\ main_pc = "join"
    /\ join_index < thread_vec
    /\ IF w_pc[join_index + 1] = "panicked"
         THEN /\ main_pc' = "panicked"
              /\ exited' = TRUE
              /\ exit_status' = ExitPanic
              /\ UNCHANGED join_index
         ELSE /\ join_index' = join_index + 1
              /\ UNCHANGED << main_pc, process >>
    /\ UNCHANGED << args, dispatcher, lock, thread_vec, workers,
                    averaging, plotting, jobs, submitted >>

\* JoinThread that drops the result of join() instead of unwrapping it
JoinThreadIgnoreResult ==
    /\ ~exited
    /\ main_pc = "join"
    /\ join_index < thread_vec
    /\ w_pc[join_index + 1] \in {"done", "panicked"}
    /\ join_index' = join_index + 1
    /\ UNCHANGED << args, dispatcher, lock, main_pc, thread_vec, workers,
                    averaging, plotting, process, jobs, submitted >>

\* t.join().unwrap() of the next thread of thread_vec, lines 245-247
JoinThread ==
    /\ ~exited
    /\ main_pc = "join"
    /\ join_index < thread_vec
    /\ w_pc[join_index + 1] \in {"done", "panicked"}
    /\ IF w_pc[join_index + 1] = "panicked"
         THEN /\ main_pc' = "panicked"
              /\ exited' = TRUE
              /\ exit_status' = ExitPanic
              /\ UNCHANGED join_index
         ELSE /\ join_index' = join_index + 1
              /\ UNCHANGED << main_pc, process >>
    /\ UNCHANGED << args, dispatcher, lock, thread_vec, workers,
                    averaging, plotting, jobs, submitted >>

JoinDone ==
    /\ ~exited
    /\ main_pc = "join"
    /\ join_index >= thread_vec
    /\ main_pc' = "sort"
    /\ UNCHANGED << args, dispatcher, lock, thread_vec, join_index, workers,
                    averaging, plotting, process, jobs, submitted >>

(***************************************************************************)
(* Chronological merge and windowed averaging                              *)
(***************************************************************************)
\* Ord for Record compares timestamp_ms alone; Vec::sort is stable
RECURSIVE InsertSorted(_, _)
InsertSorted(sorted, r) ==
    IF sorted = <<>> THEN <<r>>
    ELSE LET last == sorted[Len(sorted)] IN
         IF MsLe(last.timestamp_ms, r.timestamp_ms) THEN Append(sorted, r)
         ELSE Append(InsertSorted(SubSeq(sorted, 1, Len(sorted) - 1), r), last)

RECURSIVE SortFrom(_, _, _)
SortFrom(v, i, sorted) ==
    IF i > Len(v) THEN sorted ELSE SortFrom(v, i + 1, InsertSorted(sorted, v[i]))

sort(v) == SortFrom(v, 1, <<>>)

\* ScanWindow breaking on > instead of >=: a record exactly one window after
\* the start is taken into the window
RECURSIVE ScanWindowInclusive(_, _, _, _)
ScanWindowInclusive(rs, st, delta_time_s, start_time) ==
    IF st.rec_index >= Len(rs) THEN st
    ELSE LET rec == rs[st.rec_index + 1] IN
         IF MsDiffGeSeconds(rec.timestamp_ms, start_time, delta_time_s)
              /\ rec.timestamp_ms # Ms(start_time.s + delta_time_s, start_time.ms)
           THEN st
         ELSE ScanWindowInclusive(rs,
                         [rec_index |-> st.rec_index + 1,
                          avg_index |-> st.avg_index + 1,
                          current_acc |-> FAdd(st.current_acc, rec.current),
                          voltage_acc |-> FAdd(st.voltage_acc, rec.voltage)],
                         delta_time_s, start_time)

\* the for loop of take_avg (lines 178-186) from the 0-based index rec_index on
RECURSIVE ScanWindow(_, _, _, _)
ScanWindow(rs, st, delta_time_s, start_time) ==
    IF st.rec_index >= Len(rs) THEN st
    ELSE LET rec == rs[st.rec_index + 1] IN
         IF MsDiffGeSeconds(rec.timestamp_ms, start_time, delta_time_s) THEN st
         ELSE ScanWindow(rs,
                         [rec_index |-> st.rec_index + 1,
                          avg_index |-> st.avg_index + 1,
                          current_acc |-> FAdd(st.current_acc, rec.current),
                          voltage_acc |-> FAdd(st.voltage_acc, rec.voltage)],
                         delta_time_s, start_time)

\* take_avg returning the index after the record that closed the window
take_avg_skip(rs, start_index, delta_time_s) ==
    LET start_time == rs[start_index + 1].timestamp_ms
        st == ScanWindow(rs,
                         [rec_index |-> start_index, avg_index |-> 0,
                          current_acc |-> Fin(0), voltage_acc |-> Fin(0)],
                         delta_time_s, start_time)
        div == IF st.avg_index > 0 THEN st.avg_index ELSE 1
    IN << st.rec_index + 1,
          [timestamp_ms |-> start_time,
           current |-> FDivCount(st.current_acc, div),
           voltage |-> FDivCount(st.voltage_acc, div)] >>

\* take_avg(recs, start_index, delta_time_s * 1000), for start_index < len
take_avg(rs, start_index, delta_time_s) ==
    LET start_time == rs[start_index + 1].timestamp_ms
        st == ScanWindow(rs,
                         [rec_index |-> start_index, avg_index |-> 0,
                          current_acc |-> Fin(0), voltage_acc |-> Fin(0)],
                         delta_time_s, start_time)
        div == IF st.avg_index > 0 THEN st.avg_index ELSE 1
    IN << st.rec_index,
          [timestamp_ms |-> start_time,
           current |-> FDivCount(st.current_acc, div),
           voltage |-> FDivCount(st.voltage_acc, div)] >>

\* lines 251-254: main takes the guard and sorts the shared buffer
SortRecs ==
    /\ ~exited
    /\ main_pc = "sort"
    /\ lock = FreeLock
    /\ lock' = MainGuard
    /\ recs' = sort(recs)
    /\ next_index' = 0
    /\ main_pc' = "take_avg"
    /\ UNCHANGED << args, files, job_index, thread_vec, join_index, workers,
                    avg_recs, avg_calls, plotting, process, jobs, submitted >>

\* AvgStep that runs to the end of the buffer, without the tail guard
AvgStepNoTailGuard ==
    /\ ~exited
    /\ main_pc = "take_avg"
    /\ Len(avg_recs) < MaxBuckets
    /\ IF next_index >= Len(recs)
         THEN /\ main_pc' = "panicked"
              /\ exited' = TRUE
              /\ exit_status' = ExitPanic
              /\ UNCHANGED averaging
         ELSE LET res == take_avg(recs, next_index, flag_avg) IN
              /\ next_index' = res[1]
              /\ avg_recs' = Append(avg_recs, res[2])
              /\ avg_calls' = Append(avg_calls, [start |-> next_index, next |-> res[1]])
              /\ main_pc' = IF res[1] >= Len(recs) THEN "clear" ELSE "take_avg"
              /\ UNCHANGED process
    /\ UNCHANGED << args, dispatcher, lock, thread_vec, join_index, workers,
                    plotting, jobs, submitted >>

\* AvgStep breaking on > instead of >=: it goes on with exactly 20 records left
AvgStepStrictGuard ==
    /\ ~exited
    /\ main_pc = "take_avg"
    /\ Len(avg_recs) < MaxBuckets
    /\ IF next_index >= Len(recs)
         THEN /\ main_pc' = "panicked"
              /\ exited' = TRUE
              /\ exit_status' = ExitPanic
              /\ UNCHANGED averaging
         ELSE LET res == take_avg(recs, next_index, flag_avg) IN
              /\ next_index' = res[1]
              /\ avg_recs' = Append(avg_recs, res[2])
              /\ avg_calls' = Append(avg_calls, [start |-> next_index, next |-> res[1]])
              /\ main_pc' = IF res[1] + TailGuard > Len(recs) THEN "clear" ELSE "take_avg"
              /\ UNCHANGED process
    /\ UNCHANGED << args, dispatcher, lock, thread_vec, join_index, workers,
                    plotting, jobs, submitted >>

\* AvgStep as a loop that tests the tail guard before it takes a bucket
AvgStepGuardFirst ==
    /\ ~exited
    /\ main_pc = "take_avg"
    /\ Len(avg_recs) < MaxBuckets
    /\ IF next_index + TailGuard >= Len(recs)
         THEN /\ main_pc' = "clear"
              /\ UNCHANGED << averaging, process >>
         ELSE LET res == take_avg(recs, next_index, flag_avg) IN
              /\ next_index' = res[1]
              /\ avg_recs' = Append(avg_recs, res[2])
              /\ avg_calls' = Append(avg_calls, [start |-> next_index, next |-> res[1]])
              /\ main_pc' = "take_avg"
              /\ UNCHANGED process
    /\ UNCHANGED << args, dispatcher, lock, thread_vec, join_index, workers,
                    plotting, jobs, submitted >>

\* lines 257-264: one iteration of the averaging loop; recs[start_index]
\* of take_avg panics when the index is not below the length
AvgStep ==
    /\ ~exited
    /\ main_pc = "take_avg"
    /\ Len(avg_recs) < MaxBuckets
    /\ IF next_index >= Len(recs)
         THEN /\ main_pc' = "panicked"
              /\ exited' = TRUE
              /\ exit_status' = ExitPanic
              /\ UNCHANGED averaging
         ELSE LET res == take_avg(recs, next_index, flag_avg) IN
              /\ next_index' = res[1]
              /\ avg_recs' = Append(avg_recs, res[2])
              /\ avg_calls' = Append(avg_calls, [start |-> next_index, next |-> res[1]])
              /\ main_pc' = IF res[1] + TailGuard >= Len(recs) THEN "clear" ELSE "take_avg"
              /\ UNCHANGED process
    /\ UNCHANGED << args, dispatcher, lock, thread_vec, join_index, workers,
                    plotting, jobs, submitted >>

\* lines 265-267: the buffer is cleared and the guard dropped
ClearRecs ==
    /\ ~exited
    /\ main_pc = "clear"
    /\ recs' = <<>>
    /\ lock' = FreeLock
    /\ rec_index' = 0
    /\ main_pc' = "plot"
    /\ UNCHANGED << args, files, job_index, thread_vec, join_index, workers,
                    averaging, plots, process, jobs, submitted >>

(***************************************************************************)
(* Day segmentation.  The calendar of chrono: the date and time of day of  *)
(* a UTC second under a fixed offset of flag_time_zone hours.              *)
(***************************************************************************)
CivilFromDays(days) ==
    LET z == days + 719468
        era == z \div 146097
        doe == z - era * 146097
        yoe == (doe - doe \div 1460 + doe \div 36524 - doe \div 146096) \div 365
        doy == doe - (365 * yoe + yoe \div 4 - yoe \div 100)
        mp == (5 * doy + 2) \div 153
        m == IF mp < 10 THEN mp + 3 ELSE mp - 9
    IN [year |-> yoe + era * 400 + (IF m <= 2 THEN 1 ELSE 0),
        month |-> m,
        day |-> doy - (153 * mp + 2) \div 5 + 1]

DateTime(timestamp_ms, tz) ==
    LET local == MsToSeconds(timestamp_ms) + tz * SecondsPerHour
        date == CivilFromDays(local \div 86400)
        sod == local % 86400
    IN [year |-> date.year, month |-> date.month, day |-> date.day,
        hour |-> sod \div 3600, minute |-> (sod % 3600) \div 60]

\* the for loop of lines 287-296: the records from rec_index on, up to the
\* first one whose day() differs from start_day
RECURSIVE DayRun(_, _, _, _)
DayRun(rs, i, start_day, tz) ==
    IF i >= Len(rs) THEN 0
    ELSE IF start_day # DateTime(rs[i + 1].timestamp_ms, tz).day THEN 0
    ELSE 1 + DayRun(rs, i + 1, start_day, tz)

PlotPoint(rec, tz) ==
    LET actual_date == DateTime(rec.timestamp_ms, tz) IN
    [x_time |-> actual_date.hour * 10000 + (actual_date.minute * 10000) \div 60,
     y_power |-> FMul(rec.current, rec.voltage)]

\* PlotDay that also steps over the record that ended the day
PlotDaySkipBoundary ==
    /\ ~exited
    /\ main_pc = "plot"
    /\ rec_index < Len(avg_recs)
    /\ LET start_date == DateTime(avg_recs[rec_index + 1].timestamp_ms, flag_time_zone)
           start_day == start_date.day
           count == DayRun(avg_recs, rec_index, start_day, flag_time_zone)
       IN /\ plots' = Append(plots,
                [date_str |-> <<start_date.year, start_date.month, start_date.day>>,
                 first |-> rec_index,
                 count |-> count,
                 points |-> [k \in 1..count |->
                               PlotPoint(avg_recs[rec_index + k], flag_time_zone)]])
          /\ rec_index' = rec_index + count + 1
    /\ UNCHANGED << args, dispatcher, lock, main_pc, thread_vec, join_index, workers,
                    averaging, process, jobs, submitted >>

\* lines 275-322: one iteration of the plot loop, or its break and "Done!"
PlotDay ==
    /\ ~exited
    /\ main_pc = "plot"
    /\ rec_index < Len(avg_recs)
    /\ LET start_date == DateTime(avg_recs[rec_index + 1].timestamp_ms, flag_time_zone)
           start_day == start_date.day
           count == DayRun(avg_recs, rec_index, start_day, flag_time_zone)
       IN /\ plots' = Append(plots,
                [date_str |-> <<start_date.year, start_date.month, start_date.day>>,
                 first |-> rec_index,
                 count |-> count,
                 points |-> [k \in 1..count |->
                               PlotPoint(avg_recs[rec_index + k], flag_time_zone)]])
          /\ rec_index' = rec_index + count
    /\ UNCHANGED << args, dispatcher, lock, main_pc, thread_vec, join_index, workers,
                    averaging, process, jobs, submitted >>

PlotDone ==
    /\ ~exited
    /\ main_pc = "plot"
    /\ rec_index >= Len(avg_recs)
    /\ main_pc' = "done"
    /\ exited' = TRUE
    /\ exit_status' = 0
    /\ UNCHANGED << args, dispatcher, lock, thread_vec, join_index, workers,
                    averaging, plotting, jobs, submitted >>

Next ==
    \/ LoadLogDir
    \/ SpawnThread
    \/ SpawnDone
    \/ \E w \in Threads : WorkerLock(w)
    \/ \E w \in Threads : get_next_job(w)
    \/ \E w \in Threads : parse_file(w)
    \/ \E w \in Threads : append_data(w)
    \/ JoinThread
    \/ JoinDone
    \/ SortRecs
    \/ AvgStep
    \/ ClearRecs
    \/ PlotDay
    \/ PlotDone

Spec == Init /\ [][Next]_vars

(***************************************************************************)
(* Vocabulary of the properties                                            *)
(***************************************************************************)
\* the steps of the thread w spawned at lines 220-238
WorkerStep(w) ==
    \/ WorkerLock(w)
    \/ get_next_job(w)
    \/ parse_file(w)
    \/ append_data(w)

\* the steps of the main thread that start and await the threads,
\* lines 218-247
MainThreadStep ==
    \/ SpawnThread
    \/ SpawnDone
    \/ JoinThread
    \/ JoinDone

\* Spec under a scheduler that lets every thread that can run, run: the
\* main thread and each spawned thread are operating-system threads.  Of
\* main only the spawn and join loops are assumed to go on.
FairSpec ==
    /\ Init
    /\ [][Next]_vars
    /\ WF_vars(MainThreadStep)
    /\ \A w \in Threads : WF_vars(WorkerStep(w))

PostJoin == {"sort", "take_avg", "clear", "plot", "done"}

\* main is past the spawn loop and every thread it spawned has returned
AllWorkersTerminated ==
    /\ main_pc \in {"join", "panicked"} \cup PostJoin
    /\ \A w \in 1..thread_vec : w_pc[w] = "done"

NoCorruptArchive == \A i \in DOMAIN files : FileContent(files[i]).ok

AllJobs == UNION {{<<w, k>> : k \in DOMAIN jobs[w]} : w \in Threads}

TimesDelivered(idx) == Cardinality({p \in AllJobs : jobs[p[1]][p[2]] = idx})

Count(seq, x) == Cardinality({i \in DOMAIN seq : seq[i] = x})

SameMultiset(a, b) ==
    /\ Len(a) = Len(b)
    /\ \A i \in DOMAIN a : Count(a, a[i]) = Count(b, a[i])

RECURSIVE AcceptedOf(_, _)
AcceptedOf(fs, i) ==
    IF i > Len(fs) THEN <<>>
    ELSE ParseLines(FileContent(fs[i]).lines, <<>>) \o AcceptedOf(fs, i + 1)

FLe(a, b) == a.k # "nan" /\ b.k # "nan" /\ ~FLt(b, a)

InBounds(r) ==
    /\ MsLe(Ms(MinTimestampS, 0), r.timestamp_ms)
    /\ MsLe(r.timestamp_ms, Ms(MaxTimestampS, 0))
    /\ FLe(Fin(MinCurrent), r.current) /\ FLe(r.current, Fin(MaxCurrent))
    /\ FLe(Fin(MinVoltage), r.voltage) /\ FLe(r.voltage, Fin(MaxVoltage))

\* C1: once all workers have terminated in a run with no corrupt archive,
\* the jobs returned by get_next_job over all workers number N = files.len()
\* and every file index 0..N-1 was returned exactly once, for every -t value.
C1_ExactlyOnceDelivery ==
    (AllWorkersTerminated /\ NoCorruptArchive) =>
        /\ Cardinality(AllJobs) = Len(files)
        /\ \A idx \in 0..(Len(files) - 1) : TimesDelivered(idx) = 1

\* C2: when all workers have terminated in a run with no corrupt archive,
\* the shared buffer holds, as a multiset, the accepted records of all
\* files, whatever the worker count and the interleaving.
C2_WorkerCountIndependence ==
    (AllWorkersTerminated /\ NoCorruptArchive /\ main_pc \in {"join", "sort"}) =>
        SameMultiset(recs, AcceptedOf(files, 1))

\* C3: the sort and everything after it never run while a worker is
\* running: from the end of the join loop on, every thread of -t has been
\* spawned and has returned, nobody else holds the lock, and every job
\* delivered has been submitted.
C3_BarrierBeforeMerge ==
    (main_pc \in PostJoin \/ (main_pc = "panicked" /\ lock = MainGuard)) =>
        /\ \A w \in Threads : w_pc[w] = (IF w <= flag_t THEN "done" ELSE "unborn")
        /\ lock \in {FreeLock, MainGuard}
        /\ Len(submitted) = job_index
        /\ \A p \in AllJobs : Count(submitted, jobs[p[1]][p[2]]) = 1

C3_Witness ==
    /\ main_pc = "take_avg"
    /\ thread_vec = 2
    /\ Len(jobs[1]) > 0 /\ Len(jobs[2]) > 0
    /\ Len(submitted) >= 3

\* C4: every record in a worker's private buffer and in the shared buffer
\* satisfies 1e12 <= timestamp_ms <= 2e12, -15 <= current <= 15 and
\* 5 <= voltage <= 16, for every value the number parser returns.
C4_RecordsWithinBounds ==
    /\ \A i \in DOMAIN recs : InBounds(recs[i])
    /\ \A w \in Threads : \A i \in DOMAIN w_recs[w] : InBounds(w_recs[w][i])

\* t - t0 < window_ms for a window of window_s whole seconds, on [s, ms] values
InWindow(t, t0, window_s) ==
    LET ds == t.s - t0.s IN
    ds < window_s \/ (ds = window_s /\ t.ms - t0.ms < 0)

RECURSIVE SumOf(_, _, _, _)
SumOf(rs, field, lo, hi) ==
    IF lo > hi THEN Fin(0)
    ELSE FAdd(SumOf(rs, field, lo, hi - 1),
              IF field = "current" THEN rs[hi].current ELSE rs[hi].voltage)

MeanOf(rs, field, lo, hi) ==
    IF lo > hi THEN Fin(0) ELSE FDivCount(SumOf(rs, field, lo, hi), hi - lo + 1)

SortedRecsInPlace == main_pc \in {"take_avg", "clear"}

\* C5: on the sorted buffer, the k-th call take_avg(recs, c, window) gives a
\* bucket stamped t0 = recs[c].timestamp_ms that averages exactly the records
\* at indexes >= c with t - t0 < window, and returns the index of the first
\* record with t - t0 >= window, or len when there is none.
C5_WindowMembership ==
    SortedRecsInPlace =>
        \A k \in DOMAIN avg_calls :
            LET c == avg_calls[k].start
                t0 == recs[c + 1].timestamp_ms
                members == {i \in c..(Len(recs) - 1) :
                              InWindow(recs[i + 1].timestamp_ms, t0, flag_avg)}
                outside == {i \in c..(Len(recs) - 1) : i \notin members}
                next == avg_calls[k].next
            IN /\ avg_recs[k].timestamp_ms = t0
               /\ members = c..(next - 1)
               /\ avg_recs[k].current = MeanOf(recs, "current", c + 1, next)
               /\ avg_recs[k].voltage = MeanOf(recs, "voltage", c + 1, next)
               /\ IF outside = {} THEN next = Len(recs)
                  ELSE next \in outside /\ \A i \in outside : next <= i

C5_Witness ==
    /\ SortedRecsInPlace
    /\ \E k \in DOMAIN avg_calls :
          /\ avg_calls[k].next - avg_calls[k].start = 3
          /\ k + 1 \in DOMAIN avg_calls
          /\ avg_calls[k + 1].start = avg_calls[k].next
          /\ avg_recs[k + 1].timestamp_ms = recs[avg_calls[k].next + 1].timestamp_ms

\* C6: when the sorted sequence given to the averaging loop is empty, the
\* averaging step completes normally with an empty sequence of buckets.
C6_EmptyInputYieldsNoBuckets ==
    (lock = MainGuard /\ recs = <<>> /\ main_pc # "take_avg") =>
        (main_pc = "clear" /\ avg_recs = <<>>)

\* C7: once a window has closed with fewer than 20 records unconsumed, the
\* loop has ended: that bucket is the last one and no bucket reaches into
\* the records behind it.
C7_TailGuard ==
    SortedRecsInPlace =>
        \A k \in DOMAIN avg_calls :
            Len(recs) - avg_calls[k].next < TailGuard =>
                /\ k = Len(avg_calls)
                /\ main_pc = "clear"
                /\ \A j \in DOMAIN avg_calls : avg_calls[j].next <= avg_calls[k].next

C7_Witness ==
    /\ main_pc = "clear"
    /\ Len(recs) - next_index > 0
    /\ Len(recs) - next_index < TailGuard
    /\ Len(avg_calls) >= 2

CalendarDate(rec) ==
    LET d == DateTime(rec.timestamp_ms, flag_time_zone) IN <<d.year, d.month, d.day>>

SegmentRecs(p) == {avg_recs[p.first + k] : k \in 1..p.count}

\* C8: every segment of the plot loop holds records of one calendar date
\* (year, month, day) under the offset, and adjacent segments are on
\* different calendar dates.
C8_SegmentsAreCalendarDays ==
    /\ \A n \in DOMAIN plots :
          \A r1, r2 \in SegmentRecs(plots[n]) : CalendarDate(r1) = CalendarDate(r2)
    /\ \A n \in DOMAIN plots :
          n > 1 => plots[n - 1].date_str # plots[n].date_str

CorruptDelivered == \E p \in AllJobs : ~FileContent(files[jobs[p[1]][p[2]] + 1]).ok

\* C9: when a corrupt archive has been delivered, the run never reaches the
\* sort, the averaging, the plots or "Done"; the only end it has is the
\* panic of main with a non-zero status, and the corrupt file is never
\* appended to the shared buffer.
C9_CorruptArchiveIsFatal ==
    CorruptDelivered =>
        /\ main_pc \notin PostJoin
        /\ exited => (main_pc = "panicked" /\ exit_status = ExitPanic /\ exit_status # 0)
        /\ \A i \in DOMAIN submitted : FileContent(files[submitted[i] + 1]).ok

C9_Witness ==
    /\ exited
    /\ exit_status = ExitPanic
    /\ \E w \in Threads : w_pc[w] = "panicked"
    /\ Len(submitted) > 0

NoLogFiles ==
    \A i \in DOMAIN arg_logdir :
        arg_logdir[i][Len(arg_logdir[i])] # ".log.xz"

\* C10: when the directory holds no file ending in ".log.xz" the run stops
\* with status 2, which no other end of the run has, and no worker is
\* started, no job delivered, nothing sorted, averaged or plotted.
C10_EmptyInputSetIsFatal ==
    /\ (NoLogFiles /\ main_pc # "set_log_dir") =>
          /\ main_pc = "exit" /\ exited /\ exit_status = ExitNoLogs
          /\ thread_vec = 0
          /\ \A w \in Threads : w_pc[w] = "unborn" /\ jobs[w] = <<>>
          /\ job_index = 0 /\ recs = <<>> /\ lock = FreeLock
          /\ avg_calls = <<>> /\ avg_recs = <<>> /\ plots = <<>>
    /\ (exited /\ ~NoLogFiles) => exit_status # ExitNoLogs

C10_Witness ==
    /\ main_pc = "exit"
    /\ exit_status = ExitNoLogs
    /\ Len(arg_logdir) > 0

\* the threads whose position is between taking and dropping a guard
WorkersInCriticalSection == {w \in Threads : w_pc[w] \in {"get_next_job", "append_data"}}

MainInCriticalSection ==
    main_pc \in {"take_avg", "clear"} \/ (main_pc = "panicked" /\ lock = MainGuard)

MutualExclusion ==
    /\ Cardinality(WorkersInCriticalSection) + (IF MainInCriticalSection THEN 1 ELSE 0) <= 1
    /\ \A w \in Threads : (w \in WorkersInCriticalSection) <=> (lock = WorkerGuard(w))
    /\ MainInCriticalSection <=> (lock = MainGuard)
    /\ \A w \in Threads : w_pc[w] = "parse_file" => lock # WorkerGuard(w)

\* C11: at most one thread is inside the Dispatcher's critical section, a
\* worker holds the lock only during get_next_job and append_data (never
\* while parsing), and job_index and recs change only in a step of the
\* thread that holds the lock.
C11_LockDiscipline ==
    /\ []MutualExclusion
    /\ [][(job_index' # job_index \/ recs' # recs) =>
            /\ lock # FreeLock \/ lock' # FreeLock
            /\ \A w \in Threads :
                  (w_pc'[w] # w_pc[w]) => (lock = WorkerGuard(w) \/ lock' = WorkerGuard(w))
            /\ (main_pc' # main_pc) => (lock = MainGuard \/ lock' = MainGuard)]_vars

C11_Witness ==
    /\ \E w \in Threads : lock = WorkerGuard(w) /\ w_pc[w] = "append_data"
    /\ \E w \in Threads : w_pc[w] = "parse_file"

TotalJobs == Cardinality(AllJobs)

NoneReturned == \E w \in Threads : w_pc[w] = "done"

\* C12: 0 <= job_index <= files.len() always; job_index starts at 0, grows
\* by exactly 1 in a get_next_job that returns a file and changes in no
\* other step; files does not change once workers start; once a
\* get_next_job returned none, no later call returns a file.
C12_CursorInvariant ==
    /\ job_index = 0
    /\ [](0 <= job_index /\ job_index <= Len(files) /\ job_index = TotalJobs)
    /\ [][/\ job_index' = job_index \/ job_index' = job_index + 1
          /\ (job_index' = job_index + 1) <=> (jobs' # jobs)
          /\ (main_pc # "set_log_dir") => (files' = files)
          /\ NoneReturned => (jobs' = jobs /\ job_index' = job_index)]_vars

C12_Witness ==
    /\ job_index = Len(files)
    /\ job_index = 3
    /\ \E w \in Threads : w_pc[w] = "done"
    /\ \E w \in Threads : w_pc[w] = "get_next_job"

\* the 0-based index the bucket after bucket k starts at: the start of the
\* next call, or the cursor after the last call
StartAfter(k) == IF k < Len(avg_calls) THEN avg_calls[k + 1].start ELSE next_index

\* C13: over the averaging loop the records consumed are a prefix of the
\* sorted buffer cut into consecutive runs, one per bucket: the first
\* bucket starts at record 0, bucket k averages exactly the records from
\* its start up to the start of bucket k + 1, and the buckets are in the
\* order of their records.
C13_WindowsContiguous ==
    SortedRecsInPlace =>
        /\ Len(avg_recs) = Len(avg_calls)
        /\ \A k \in DOMAIN avg_calls :
              LET lo == avg_calls[k].start
                  hi == StartAfter(k)
              IN /\ (k = 1) => lo = 0
                 /\ lo <= hi /\ hi <= Len(recs)
                 /\ avg_calls[k].next = hi
                 /\ avg_recs[k].timestamp_ms = recs[lo + 1].timestamp_ms
                 /\ avg_recs[k].current = MeanOf(recs, "current", lo + 1, hi)
                 /\ avg_recs[k].voltage = MeanOf(recs, "voltage", lo + 1, hi)
                 /\ k > 1 => MsLe(avg_recs[k - 1].timestamp_ms, avg_recs[k].timestamp_ms)

C13_Witness ==
    /\ main_pc = "clear"
    /\ Len(avg_calls) >= 3
    /\ \E k \in DOMAIN avg_calls :
          k < Len(avg_calls) /\ avg_calls[k].next - avg_calls[k].start >= 3
    /\ next_index < Len(recs)

\* records of the sorted buffer behind the cursor
Unconsumed == Len(recs) - next_index

\* the averaging loop has run at least one iteration on the sorted buffer
AveragingBegun == SortedRecsInPlace /\ Len(avg_calls) >= 1

\* C14 as stated: the averaging loop never stops while 20 or more records
\* are unconsumed; when it has stopped, fewer than 20 are unconsumed.
C14_StopsBelowTailGuard ==
    (AveragingBegun /\ main_pc = "clear") => Unconsumed < TailGuard

\* C14, amended: the averaging loop never stops while more than 20 records
\* are unconsumed and stops as soon as 20 or fewer are; when it has
\* stopped, at most 20 are unconsumed.
C14_StopsAtTailGuard ==
    AveragingBegun => ((main_pc = "clear") <=> (Unconsumed <= TailGuard))

C14_Witness ==
    /\ AveragingBegun
    /\ main_pc = "clear"
    /\ Unconsumed = TailGuard

\* C15: every take_avg call of the averaging loop, for every --avg value,
\* takes at least the record at the cursor: its count is >= 1 (the
\* zero-count divisor is never used) and it returns a cursor greater than
\* its start index.
C15_WindowNeverEmpty ==
    AveragingBegun =>
        \A k \in DOMAIN avg_calls : avg_calls[k].next > avg_calls[k].start

\* C19: for every --avg value the cursor next_index grows in every
\* iteration of the averaging loop, so the loop emits at most len buckets.
C19_CursorAdvances ==
    /\ [](SortedRecsInPlace => Len(avg_recs) <= Len(recs))
    /\ [][(avg_calls' # avg_calls) => next_index' > next_index]_vars

\* C20: on a non-empty sorted buffer the averaging loop has emitted a first
\* bucket that starts at the first record when it ends, however few the
\* records are; every later bucket started with more than 20 records
\* unconsumed.
C20_FirstBucketBeforeGuard ==
    /\ (SortedRecsInPlace /\ main_pc = "clear" /\ Len(recs) > 0) => Len(avg_calls) >= 1
    /\ AveragingBegun =>
          /\ avg_calls[1].start = 0
          /\ avg_recs[1].timestamp_ms = recs[1].timestamp_ms
          /\ \A k \in DOMAIN avg_calls :
                k > 1 => Len(recs) - avg_calls[k].start > TailGuard

C20_Witness ==
    /\ main_pc = "clear"
    /\ Len(recs) > 0 /\ Len(recs) < TailGuard
    /\ Len(avg_recs) = 1

RECURSIVE PointsOfPlots(_)
PointsOfPlots(n) == IF n = 0 THEN <<>> ELSE PointsOfPlots(n - 1) \o plots[n].points

\* C16: the segments of the plot loop are non-empty and, put one after the
\* other in the order they are produced, are exactly the averaged records
\* up to the cursor, in order; the loop ends when, and only when, the
\* cursor is at the end of the averaged sequence, so that at "Done" every
\* averaged record is in exactly one segment.
C16_SegmentsPartition ==
    main_pc \in {"plot", "done"} =>
        /\ rec_index <= Len(avg_recs)
        /\ \A n \in DOMAIN plots :
              /\ plots[n].count >= 1
              /\ Len(plots[n].points) = plots[n].count
              /\ plots[n].first = (IF n = 1 THEN 0
                                   ELSE plots[n - 1].first + plots[n - 1].count)
              /\ plots[n].first + plots[n].count =
                    (IF n = Len(plots) THEN rec_index ELSE plots[n + 1].first)
        /\ (plots = <<>>) => rec_index = 0
        /\ PointsOfPlots(Len(plots)) =
              [i \in 1..rec_index |-> PlotPoint(avg_recs[i], flag_time_zone)]
        /\ (main_pc = "done") <=> (exited /\ rec_index = Len(avg_recs))

C16_Witness ==
    /\ main_pc = "done"
    /\ Len(plots) >= 2
    /\ \E n \in DOMAIN plots : plots[n].count >= 2

\* the part of the jobs of w whose batch has to be in the shared buffer: all
\* of them, but for the one that w is still parsing or about to append
BatchesDue(w) ==
    IF w_pc[w] \in {"parse_file", "lock_append", "append_data", "panicked"}
      THEN SubSeq(jobs[w], 1, Len(jobs[w]) - 1)
      ELSE jobs[w]

ReturnsOnNone(w) ==
    (w_pc[w] # "done" /\ w_pc'[w] = "done") =>
        /\ w_pc[w] = "get_next_job"
        /\ lock = WorkerGuard(w)
        /\ job_index >= Len(files)
        /\ jobs' = jobs
        /\ job_index' = job_index

\* C17: in a run with no corrupt archive a thread returns only in a step of
\* its own get_next_job that found no job left, and it never stops in any
\* other way; each job a thread received is appended exactly once before the
\* thread asks for the next job or returns; and, every thread being
\* scheduled fairly, all the spawned threads return and main gets past the
\* join loop.
C17_WorkerTermination ==
    /\ [][NoCorruptArchive => \A w \in Threads :
              /\ ReturnsOnNone(w)
              /\ w_pc'[w] # "panicked"
              /\ (w_pc[w] = "done" => w_pc'[w] = "done")]_vars
    /\ [](NoCorruptArchive => \A w \in Threads :
              /\ \A i \in DOMAIN jobs[w] :
                    Count(submitted, jobs[w][i]) =
                        (IF i <= Len(BatchesDue(w)) THEN 1 ELSE 0)
              /\ w_pc[w] \in {"lock_job", "get_next_job", "done", "unborn"}
                    => BatchesDue(w) = jobs[w])
    /\ (main_pc = "spawn" /\ NoCorruptArchive) ~>
           (main_pc \in PostJoin /\ \A w \in 1..thread_vec : w_pc[w] = "done")

C17_Witness ==
    /\ NoCorruptArchive
    /\ main_pc = "sort"
    /\ thread_vec = 2
    /\ \A w \in 1..thread_vec : w_pc[w] = "done" /\ Len(jobs[w]) >= 1
    /\ Len(submitted) = 3

AWorkerFailed == \E w \in Threads : w_pc[w] = "panicked"

\* C18 as stated: from the failure of a thread on, no job is delivered and
\* no batch is appended.
C18_AbortsAtFailure ==
    [][AWorkerFailed => (jobs' = jobs /\ submitted' = submitted)]_vars

\* C18: the failure of a thread is fatal for the run, at the join and not
\* before.  Once a thread has failed main never gets past the join loop;
\* every thread being scheduled fairly, the join of the failed thread ends
\* the process with the panic status; and from the end of the process on no
\* job is delivered and nothing is appended to the shared buffer.
C18_AbortsAtJoin ==
    /\ [](AWorkerFailed =>
              /\ main_pc \notin PostJoin
              /\ exited => (main_pc = "panicked" /\ exit_status = ExitPanic))
    /\ [][exited => (jobs' = jobs /\ submitted' = submitted /\ recs' = recs
                     /\ job_index' = job_index)]_vars
    /\ AWorkerFailed ~> (exited /\ exit_status = ExitPanic)

C18_Witness ==
    /\ exited
    /\ exit_status = ExitPanic
    /\ \E w, v \in Threads :
          /\ w_pc[w] = "panicked"
          /\ w_pc[v] = "get_next_job"
          /\ lock = WorkerGuard(v)
          /\ job_index < Len(files)

====
